---------------------------- MODULE Spec2Model ----------------------------
(***************************************************************************)
(* Model of src/conference_backend.js: the request handlers of the         *)
(* conference backend over its relational store.                           *)
(*                                                                         *)
(* Every handler is an async function; between two awaits its code runs    *)
(* without interruption (one JavaScript thread), and each awaited          *)
(* pool.query is one statement the store executes atomically.  A handler   *)
(* is therefore a sequence of steps, one per awaited statement, and the    *)
(* steps of different requests interleave freely.                          *)
(*                                                                         *)
(* Store constraints are those of the declared schema (lines 40-71):       *)
(* Participants.email is UNIQUE, Attendance has foreign keys to            *)
(* Participants and Sessions and NO unique key on (participant_id,         *)
(* session_id).  The handlers' table tracks_sessions is the Sessions       *)
(* table; sessions_registered is the nullable text the UPDATE of line 230  *)
(* builds with CONCAT.  The store runs in strict SQL mode (the default): a  *)
(* NULL bound to capacity INT NOT NULL is an error.  The columns of a       *)
(* session other than capacity are taken as valid and left out.            *)
(***************************************************************************)
EXTENDS Integers, Sequences, FiniteSets, TLC

\* ------------------------------------------------------------------ bounds
\* number of requests the service receives in one behaviour
MaxReq == 3
\* participant ids a request body may carry: 1..MaxPid
MaxPid == 3
\* session ids a request body may carry: 1..MaxSid
MaxSid == 3

Reqs == 1..MaxReq
\* number of requests in the behaviours of the specifications that take
\* only some of the handlers
MaxCalls == 2
FewReqs == 1..MaxCalls
PidInputs == 1..MaxPid
SidInputs == 1..MaxSid
Names == {"Ann", "Bob"}
Emails == {"ann@x.com", "bob@x.com", "cy@x.com"}
Passwords == {"pw"}

VARIABLES
    participants,       \* table participants: participant_id -> row
    nextParticipantId,  \* AUTO_INCREMENT counter of participants
    sessions,           \* table tracks_sessions: session_id -> row
    nextSessionId,      \* AUTO_INCREMENT counter of tracks_sessions
    attendance,         \* table attendance: rows in insertion order
    outbox,             \* mails accepted by the SMTP transporter
    pc,                 \* per request: the await the handler is parked at
    body,               \* per request: req.body
    insertId,           \* per request: result.insertId of /register
    response,           \* per request: what res.status(..).json(..) sent
    overlap,            \* per request: requests in flight when it arrived
    aborted             \* requests whose caller closed the connection early

vars == <<participants, nextParticipantId, sessions, nextSessionId,
          attendance, outbox, pc, body, insertId, response, overlap, aborted>>

\* --------------------------------------------------------------- SQL text
SqlNull == <<"NULL">>

Digits == <<"0", "1", "2", "3", "4", "5", "6", "7", "8", "9">>

RECURSIVE ToText(_)
\* decimal text of a non-negative integer, as the query formats a parameter
ToText(n) ==
    IF n < 10 THEN <<Digits[n + 1]>>
    ELSE Append(ToText(n \div 10), Digits[(n % 10) + 1])

\* MySQL CONCAT: NULL if any argument is NULL
CONCAT(a, b, c) ==
    IF a = SqlNull \/ b = SqlNull \/ c = SqlNull THEN SqlNull ELSE a \o b \o c

\* MySQL IFNULL
IFNULL(a, b) == IF a = SqlNull THEN b ELSE a

\* the SET expression of /register-session (line 230)
SessionsRegisteredUpdate(old, session_id) ==
    IFNULL(CONCAT(old, ToText(session_id), <<",">>), ToText(session_id))

\* ------------------------------------------------------------- collaborators
\* bcrypt.hash(password, 10): opaque
Hash(password) == <<"bcrypt", password>>

\* QRCode.toDataURL(`${name}\n${email}`): deterministic in name and email
QrCode(name, email) == <<"qr", name, email>>

\* ----------------------------------------------------------------- queries
\* SELECT COUNT(*) FROM attendance WHERE session_id = ?
AdmittedCount(att, session_id) ==
    Cardinality({i \in 1..Len(att) : att[i].session_id = session_id})

\* UNIQUE(email) on participants
EmailTaken(email) ==
    \E p \in DOMAIN participants : participants[p].email = email

\* foreign keys of attendance
ForeignKeysHold(participant_id, session_id) ==
    /\ participant_id \in DOMAIN participants
    /\ session_id \in DOMAIN sessions

\* --------------------------------------------------------------- responses
NoResponse == [status |-> 0, text |-> "none"]
CheckInOk == [status |-> 200, text |-> "Check-in successful"]
SessionFull == [status |-> 400, text |-> "Session is full"]
CheckInError == [status |-> 500, text |-> "Error during check-in"]
RegisterSessionOk == [status |-> 200, text |-> "Session registration successful"]
RegisterSessionError == [status |-> 500, text |-> "Error registering for session"]
RegisterOk(id) ==
    [status |-> 201, text |-> "Registration successful", participant_id |-> id]
RegisterError == [status |-> 500, text |-> "Error registering participant"]

\* --------------------------------------------------------------------- Init
NoBody == [op |-> "none"]

InitParticipants ==
    (1 :> [name |-> "Ann", email |-> "ann@x.com", password_hash |-> Hash("pw"),
           qr_code |-> QrCode("Ann", "ann@x.com"), sessions_registered |-> SqlNull])
    @@
    (2 :> [name |-> "Bob", email |-> "bob@x.com", password_hash |-> Hash("pw"),
           qr_code |-> QrCode("Bob", "bob@x.com"), sessions_registered |-> SqlNull])

InitSessions == (1 :> [capacity |-> 1]) @@ (2 :> [capacity |-> 2])

Init ==
    /\ participants = InitParticipants
    /\ nextParticipantId = 3
    /\ sessions = InitSessions
    /\ nextSessionId = 3
    /\ attendance = <<>>
    /\ outbox = <<>>
    /\ pc = [r \in Reqs |-> "idle"]
    /\ body = [r \in Reqs |-> NoBody]
    /\ insertId = [r \in Reqs |-> 0]
    /\ response = [r \in Reqs |-> NoResponse]
    /\ overlap = [r \in Reqs |-> {}]
    /\ aborted = {}

\* ----------------------------------------------------------------- arrival
InFlight == {r \in Reqs : pc[r] \notin {"idle", "done"}}

\* requests arrive in slot order
CanArrive(r) ==
    /\ pc[r] = "idle"
    /\ \A q \in Reqs : q < r => pc[q] # "idle"

Accept(r, b, first) ==
    /\ body' = [body EXCEPT ![r] = b]
    /\ pc' = [pc EXCEPT ![r] = first]
    /\ overlap' = [overlap EXCEPT ![r] = InFlight]
    /\ UNCHANGED <<participants, nextParticipantId, sessions, nextSessionId, attendance,
                   outbox, insertId, response, aborted>>

Reply(r, resp) ==
    /\ response' = [response EXCEPT ![r] = resp]
    /\ pc' = [pc EXCEPT ![r] = "done"]

\* ---------------------------------------------------------------- /check-in
\* POST /check-in arrives with { participant_id, session_id }
CheckInArrive(r) ==
    /\ CanArrive(r)
    /\ \E p \in PidInputs, s \in SidInputs :
        Accept(r, [op |-> "check-in", participant_id |-> p, session_id |-> s],
               "select")

\* a check-in whose capacity test is off by one (> for >=)
CheckInSelectOffByOne(r) ==
    /\ pc[r] = "select"
    /\ LET sid == body[r].session_id IN
       IF sid \notin DOMAIN sessions
       THEN Reply(r, CheckInError)
       ELSE LET registered == AdmittedCount(attendance, sid)
                capacity == sessions[sid].capacity
            IN  IF registered > capacity
                THEN Reply(r, SessionFull)
                ELSE /\ pc' = [pc EXCEPT ![r] = "insert"]
                     /\ UNCHANGED response
    /\ UNCHANGED <<participants, nextParticipantId, sessions, nextSessionId,
                   attendance, outbox, body, insertId, overlap, aborted>>

\* line 243-246: the SELECT of capacity and admitted count, then the test
CheckInSelect(r) ==
    /\ pc[r] = "select"
    /\ LET sid == body[r].session_id IN
       IF sid \notin DOMAIN sessions
       THEN \* no row: session is undefined, session.registered throws
            Reply(r, CheckInError)
       ELSE LET registered == AdmittedCount(attendance, sid)
                capacity == sessions[sid].capacity
            IN  IF registered >= capacity
                THEN Reply(r, SessionFull)
                ELSE /\ pc' = [pc EXCEPT ![r] = "insert"]
                     /\ UNCHANGED response
    /\ UNCHANGED <<participants, nextParticipantId, sessions, nextSessionId, attendance,
                   outbox, body, insertId, overlap, aborted>>

\* a check-in whose row is written before the references are validated
CheckInInsertBeforeValidation(r) ==
    /\ pc[r] = "insert"
    /\ LET p == body[r].participant_id
           s == body[r].session_id
       IN  /\ attendance' = Append(attendance,
                                   [participant_id |-> p, session_id |-> s])
           /\ IF ForeignKeysHold(p, s)
              THEN Reply(r, CheckInOk)
              ELSE Reply(r, CheckInError)
    /\ UNCHANGED <<participants, nextParticipantId, sessions, nextSessionId,
                   outbox, body, insertId, overlap, aborted>>

\* a check-in that also mails the participant on success
CheckInInsertNotifying(r) ==
    /\ pc[r] = "insert"
    /\ LET p == body[r].participant_id
           s == body[r].session_id
       IN  IF ForeignKeysHold(p, s)
           THEN /\ attendance' = Append(attendance,
                                   [participant_id |-> p, session_id |-> s])
                /\ outbox' = Append(outbox, participants[p].email)
                /\ Reply(r, CheckInOk)
           ELSE /\ Reply(r, CheckInError)
                /\ UNCHANGED <<attendance, outbox>>
    /\ UNCHANGED <<participants, nextParticipantId, sessions, nextSessionId,
                   body, insertId, overlap, aborted>>

\* line 247-249: the INSERT into attendance, then the success response
CheckInInsert(r) ==
    /\ pc[r] = "insert"
    /\ LET p == body[r].participant_id
           s == body[r].session_id
       IN  IF ForeignKeysHold(p, s)
           THEN /\ attendance' = Append(attendance,
                                   [participant_id |-> p, session_id |-> s])
                /\ Reply(r, CheckInOk)
           ELSE /\ Reply(r, CheckInError)
                /\ UNCHANGED attendance
    /\ UNCHANGED <<participants, nextParticipantId, sessions, nextSessionId, outbox, body,
                   insertId, overlap, aborted>>

\* --------------------------------------------------------- /register-session
RegisterSessionArrive(r) ==
    /\ CanArrive(r)
    /\ \E p \in PidInputs, s \in SidInputs :
        Accept(r, [op |-> "register-session", participant_id |-> p,
                   session_id |-> s], "update")

\* a register-session that refuses a full session
RegisterSessionUpdateCapacityChecked(r) ==
    /\ pc[r] = "update"
    /\ LET p == body[r].participant_id
           s == body[r].session_id
           full == /\ s \in DOMAIN sessions
                   /\ AdmittedCount(attendance, s) >= sessions[s].capacity
       IN  IF full
           THEN /\ Reply(r, RegisterSessionError)
                /\ UNCHANGED participants
           ELSE /\ participants' =
                     [q \in DOMAIN participants |->
                        IF q = p
                        THEN [participants[q] EXCEPT !.sessions_registered =
                                SessionsRegisteredUpdate(@, s)]
                        ELSE participants[q]]
                /\ Reply(r, RegisterSessionOk)
    /\ UNCHANGED <<nextParticipantId, sessions, nextSessionId, attendance,
                   outbox, body, insertId, overlap, aborted>>

\* line 230-232: one UPDATE ... WHERE participant_id = ?, then 200
RegisterSessionUpdate(r) ==
    /\ pc[r] = "update"
    /\ LET p == body[r].participant_id
           s == body[r].session_id
       IN  participants' =
             [q \in DOMAIN participants |->
                IF q = p
                THEN [participants[q] EXCEPT !.sessions_registered =
                        SessionsRegisteredUpdate(@, s)]
                ELSE participants[q]]
    /\ Reply(r, RegisterSessionOk)
    /\ UNCHANGED <<nextParticipantId, sessions, nextSessionId, attendance, outbox, body,
                   insertId, overlap, aborted>>

\* ----------------------------------------------------------------- /register
RegisterArrive(r) ==
    /\ CanArrive(r)
    /\ \E n \in Names, e \in Emails, pw \in Passwords :
        Accept(r, [op |-> "register", name |-> n, email |-> e,
                   password |-> pw], "insert-participant")

\* line 187-192: hash, QR code, INSERT INTO participants
RegisterInsert(r) ==
    /\ pc[r] = "insert-participant"
    /\ LET b == body[r] IN
       IF EmailTaken(b.email)
       THEN \* UNIQUE(email) rejects the row: the query throws
            /\ Reply(r, RegisterError)
            /\ UNCHANGED <<participants, nextParticipantId, insertId>>
       ELSE /\ participants' = participants @@
                (nextParticipantId :>
                    [name |-> b.name, email |-> b.email,
                     password_hash |-> Hash(b.password),
                     qr_code |-> QrCode(b.name, b.email),
                     sessions_registered |-> SqlNull])
            /\ insertId' = [insertId EXCEPT ![r] = nextParticipantId]
            /\ nextParticipantId' = nextParticipantId + 1
            /\ pc' = [pc EXCEPT ![r] = "send-mail"]
            /\ UNCHANGED response
    /\ UNCHANGED <<sessions, nextSessionId, attendance, outbox, body, overlap, aborted>>

\* line 194-201: transporter.sendMail resolves, then 201
RegisterMailSent(r) ==
    /\ pc[r] = "send-mail"
    /\ outbox' = Append(outbox, body[r].email)
    /\ Reply(r, RegisterOk(insertId[r]))
    /\ UNCHANGED <<participants, nextParticipantId, sessions, nextSessionId, attendance,
                   body, insertId, overlap, aborted>>

\* line 194-204: transporter.sendMail rejects, the catch answers 500
RegisterMailFailed(r) ==
    /\ pc[r] = "send-mail"
    /\ Reply(r, RegisterError)
    /\ UNCHANGED <<participants, nextParticipantId, sessions, nextSessionId, attendance,
                   outbox, body, insertId, overlap, aborted>>

\* --------------------------------------------------------------------- Next
Next ==
    \E r \in Reqs :
        \/ CheckInArrive(r)
        \/ CheckInSelect(r)
        \/ CheckInInsert(r)
        \/ RegisterSessionArrive(r)
        \/ RegisterSessionUpdate(r)
        \/ RegisterArrive(r)
        \/ RegisterInsert(r)
        \/ RegisterMailSent(r)
        \/ RegisterMailFailed(r)

Spec == Init /\ [][Next]_vars

\* ------------------------------------------------------------ store failures
\* the 500 body of each handler's catch block
ErrorBody(op) ==
    CASE op = "check-in" -> CheckInError
      [] op = "register-session" -> RegisterSessionError
      [] op = "register" -> RegisterError

\* an awaited pool.query rejects (the store is unreachable): the statement
\* changes nothing and the handler's catch answers 500
QueryRejected(r) ==
    /\ pc[r] \in {"select", "insert", "update", "insert-participant"}
    /\ Reply(r, ErrorBody(body[r].op))
    /\ UNCHANGED <<participants, nextParticipantId, sessions, nextSessionId, attendance,
                   outbox, body, insertId, overlap, aborted>>

NextUnreliable ==
    \/ Next
    \/ \E r \in Reqs : QueryRejected(r)

\* the service over a store that may be unreachable
SpecUnreliable == Init /\ [][NextUnreliable]_vars


\* ----------------------------------------------------------------- /sessions
\* largest capacity a request body may carry (the smallest is -1)
MaxCapacity == 2

CapacityInputs == -1..MaxCapacity

SessionUpdated == [status |-> 200, text |-> "Session updated successfully"]
SessionAdded == [status |-> 201, text |-> "Session added successfully"]
SessionsError == [status |-> 500, text |-> "Error managing session"]
SessionDeleted == [status |-> 200, text |-> "Session deleted successfully"]

\* POST /sessions arrives; session_id 0 stands for a body without session_id
\* (both are falsy at line 155), and capacity may be missing
SessionsArrive(r) ==
    /\ CanArrive(r)
    /\ \E s \in {0} \cup SidInputs :
        \/ \E c \in CapacityInputs :
            Accept(r, [op |-> "sessions", session_id |-> s, capacity |-> c],
                   "save-session")
        \/ Accept(r, [op |-> "sessions", session_id |-> s], "save-session")

\* line 155-163: UPDATE when session_id is truthy, INSERT otherwise; a
\* missing capacity is bound as NULL, which capacity INT NOT NULL rejects
SessionsSave(r) ==
    /\ pc[r] = "save-session"
    /\ LET b == body[r]
           hasCapacity == "capacity" \in DOMAIN b
       IN  IF b.session_id # 0
           THEN IF b.session_id \notin DOMAIN sessions
                THEN \* no row matches: nothing changes, 200
                     /\ Reply(r, SessionUpdated)
                     /\ UNCHANGED <<sessions, nextSessionId>>
                ELSE IF hasCapacity
                THEN /\ sessions' =
                          [sessions EXCEPT ![b.session_id].capacity = b.capacity]
                     /\ Reply(r, SessionUpdated)
                     /\ UNCHANGED nextSessionId
                ELSE /\ Reply(r, SessionsError)
                     /\ UNCHANGED <<sessions, nextSessionId>>
           ELSE IF hasCapacity
                THEN /\ sessions' =
                          sessions @@ (nextSessionId :> [capacity |-> b.capacity])
                     /\ nextSessionId' = nextSessionId + 1
                     /\ Reply(r, SessionAdded)
                ELSE /\ Reply(r, SessionsError)
                     /\ UNCHANGED <<sessions, nextSessionId>>
    /\ UNCHANGED <<participants, nextParticipantId, attendance, outbox, body,
                   insertId, overlap, aborted>>

\* DELETE /sessions/:session_id arrives
SessionDeleteArrive(r) ==
    /\ CanArrive(r)
    /\ \E s \in SidInputs :
        Accept(r, [op |-> "delete-session", session_id |-> s], "delete-session")

\* a delete that leaves the attendance rows of the session behind
SessionDeleteNoCascade(r) ==
    /\ pc[r] = "delete-session"
    /\ LET sid == body[r].session_id
       IN  sessions' = [s \in DOMAIN sessions \ {sid} |-> sessions[s]]
    /\ Reply(r, SessionDeleted)
    /\ UNCHANGED <<participants, nextParticipantId, nextSessionId, attendance,
                   outbox, body, insertId, overlap, aborted>>

\* line 174-176: the DELETE; attendance rows of the session go with it
\* (FOREIGN KEY (session_id) ... ON DELETE CASCADE, line 70)
SessionDelete(r) ==
    /\ pc[r] = "delete-session"
    /\ LET sid == body[r].session_id
           Kept(row) == row.session_id # sid
       IN  /\ sessions' = [s \in DOMAIN sessions \ {sid} |-> sessions[s]]
           /\ attendance' = SelectSeq(attendance, Kept)
    /\ Reply(r, SessionDeleted)
    /\ UNCHANGED <<participants, nextParticipantId, nextSessionId, outbox,
                   body, insertId, overlap, aborted>>

\* -------------------------------------------------------------------- /login
LoginPasswords == Passwords \cup {"bad"}

\* bcrypt.compare(password, password_hash)
Verify(password, password_hash) == password_hash = Hash(password)

\* SELECT * FROM participants: every column of the row
SelectAll(p) == [participant_id |-> p] @@ participants[p]

LoginOk(row) ==
    [status |-> 200, text |-> "Login successful", participant |-> row]
LoginRefused == [status |-> 401, text |-> "Invalid email or password"]

LoginArrive(r) ==
    /\ CanArrive(r)
    /\ \E e \in Emails, pw \in LoginPasswords :
        Accept(r, [op |-> "login", email |-> e, password |-> pw],
               "find-participant")

\* line 212-219: SELECT * ... WHERE email = ?, compare, answer
LoginFind(r) ==
    /\ pc[r] = "find-participant"
    /\ LET rows == {p \in DOMAIN participants :
                      participants[p].email = body[r].email}
       IN  IF rows = {}
           THEN Reply(r, LoginRefused)
           ELSE LET p == CHOOSE q \in rows : TRUE IN
                IF Verify(body[r].password, participants[p].password_hash)
                THEN Reply(r, LoginOk(SelectAll(p)))
                ELSE Reply(r, LoginRefused)
    /\ UNCHANGED <<participants, nextParticipantId, sessions, nextSessionId,
                   attendance, outbox, body, insertId, overlap, aborted>>

\* ------------------------------------------------------------- /participants
\* SELECT participant_id, name, email, sessions_registered FROM participants
SelectListed(p) ==
    [participant_id |-> p, name |-> participants[p].name,
     email |-> participants[p].email,
     sessions_registered |-> participants[p].sessions_registered]

ParticipantsOk(rows) == [status |-> 200, text |-> "rows", rows |-> rows]

ParticipantsArrive(r) ==
    /\ CanArrive(r)
    /\ Accept(r, [op |-> "participants"], "list-participants")

\* line 132-133
ParticipantsSelect(r) ==
    /\ pc[r] = "list-participants"
    /\ Reply(r, ParticipantsOk({SelectListed(p) : p \in DOMAIN participants}))
    /\ UNCHANGED <<participants, nextParticipantId, sessions, nextSessionId,
                   attendance, outbox, body, insertId, overlap, aborted>>

\* --------------------------------------------------------------- disconnects
\* the caller closes the connection while its request is in flight; no
\* handler listens for it, so the handler goes on as before
ClientAbort(r) ==
    /\ r \in InFlight
    /\ r \notin aborted
    /\ aborted' = aborted \cup {r}
    /\ UNCHANGED <<participants, nextParticipantId, sessions, nextSessionId,
                   attendance, outbox, pc, body, insertId, response, overlap>>

\* ------------------------------------------------- reading the state back
\* the outcome a caller can tell from a response: the handlers send one
\* success body, one 400 body ("Session is full") and one 500 body each
Outcome(resp) ==
    CASE resp.status \in {200, 201} -> "Success"
      [] resp = SessionFull -> "CapacityExceeded"
      [] resp.status = 500 -> "Failure"
      [] OTHER -> "none"

DigitValue(c) == CHOOSE d \in 0..9 : Digits[d + 1] = c

RECURSIVE Number(_)
Number(tok) ==
    IF tok = <<>> THEN 0
    ELSE Number(SubSeq(tok, 1, Len(tok) - 1)) * 10 + DigitValue(tok[Len(tok)])

\* the comma-separated tokens of a text, empty tokens dropped
Tokens(text) ==
    LET cuts == {0, Len(text) + 1} \cup {i \in 1..Len(text) : text[i] = ","}
    IN  {SubSeq(text, a + 1, b - 1) :
            <<a, b>> \in {<<a, b>> \in cuts \X cuts :
                            /\ a + 1 < b
                            /\ \A c \in cuts : ~(a < c /\ c < b)}}

\* sessions_registered read back as a set of session ids
ReadSessions(text) ==
    IF text = SqlNull THEN {} ELSE {Number(tok) : tok \in Tokens(text)}

CheckIns(s) ==
    {r \in Reqs : body[r].op = "check-in" /\ body[r].session_id = s}

SessionRegistrations(p) ==
    {r \in Reqs : body[r].op = "register-session" /\ body[r].participant_id = p}

\* q had completed before r arrived
Before(q, r) == q < r /\ q \notin overlap[r]

\* q and r were in flight at the same time
Concurrent(q, r) == q \in overlap[r] \/ r \in overlap[q]

\* ------------------------------------------------------------------ claims

\* C1: in every reachable state, whatever the interleaving of CheckIn calls,
\* every session has at most capacity admission records.
C1_CapacityInvariant ==
    \A s \in DOMAIN sessions :
        AdmittedCount(attendance, s) <= sessions[s].capacity

\* C2: once N >= C check-ins of one session by distinct, existing, not yet
\* admitted participants have all completed, exactly C of them succeeded and
\* the others got CapacityExceeded.
C2_ExactlyCapacitySucceed ==
    \A s \in DOMAIN sessions :
        LET A == CheckIns(s)
            ok == {r \in A : Outcome(response[r]) = "Success"}
        IN  ( /\ \A r \in A : pc[r] = "done"
              /\ \A r \in A : body[r].participant_id \in DOMAIN InitParticipants
              /\ \A q, r \in A :
                    q # r => body[q].participant_id # body[r].participant_id
              /\ Cardinality(A) >= sessions[s].capacity )
            => /\ Cardinality(ok) = sessions[s].capacity
               /\ \A r \in A \ ok : Outcome(response[r]) = "CapacityExceeded"

\* C3: the ledger never holds two admission records for the same
\* (participant_id, session_id) pair.
C3_OneRecordPerPair ==
    \A i, j \in 1..Len(attendance) :
        i # j =>
            ~ ( /\ attendance[i].participant_id = attendance[j].participant_id
                /\ attendance[i].session_id = attendance[j].session_id )

\* C4: a CheckIn for a pair admitted by an earlier, completed CheckIn ends
\* with the outcome AlreadyAdmitted (which is not CapacityExceeded), also
\* when the session is full.
C4_RepeatIsAlreadyAdmitted ==
    \A q, r \in Reqs :
        ( /\ body[q].op = "check-in" /\ body[r].op = "check-in"
          /\ Before(q, r)
          /\ response[q] = CheckInOk
          /\ body[q].participant_id = body[r].participant_id
          /\ body[q].session_id = body[r].session_id
          /\ pc[r] = "done" )
        => Outcome(response[r]) = "AlreadyAdmitted"

\* C5: a RegisterForSession(p, s) step that follows an earlier completed
\* RegisterForSession(p, s) of an existing participant leaves p's
\* sessions_registered as it was, and answers success.
C5_RegistrationIdempotent ==
    [][ \A q, r \in Reqs :
          ( /\ pc[r] = "update" /\ pc'[r] = "done"
            /\ body[q].op = "register-session"
            /\ pc[q] = "done" /\ q # r
            /\ body[q].participant_id = body[r].participant_id
            /\ body[q].session_id = body[r].session_id
            /\ body[r].participant_id \in DOMAIN InitParticipants )
          => /\ participants'[body[r].participant_id].sessions_registered
                  = participants[body[r].participant_id].sessions_registered
             /\ response'[r] = RegisterSessionOk ]_vars

\* C6: when the RegisterForSession calls on one participant (two or more,
\* for different sessions) were all in flight together and have all completed
\* with success, the participant's sessions_registered is the set of their
\* session ids.
C6_NoLostUpdates ==
    \A p \in DOMAIN InitParticipants :
        LET R == SessionRegistrations(p) IN
        ( /\ Cardinality(R) >= 2
          /\ \A r \in R : pc[r] = "done" /\ response[r] = RegisterSessionOk
          /\ \A q, r \in R :
                q # r => /\ Concurrent(q, r)
                         /\ body[q].session_id # body[r].session_id )
        => ReadSessions(participants[p].sessions_registered)
             = {body[r].session_id : r \in R}

\* C7: after any sequence of successful RegisterForSession calls on a
\* participant that started with no registered sessions, reading
\* sessions_registered back gives exactly the ids that were registered.
C7_RegisteredSessionsReadBack ==
    \A p \in DOMAIN InitParticipants :
        LET R == SessionRegistrations(p) IN
        (\A r \in R : pc[r] = "done" /\ response[r] = RegisterSessionOk)
        => ReadSessions(participants[p].sessions_registered)
             = {body[r].session_id : r \in R}

\* no two participants share an email
UniqueEmails ==
    \A p, q \in DOMAIN participants :
        p # q => participants[p].email # participants[q].email

\* C8: a Register whose email belongs to an existing participant ends with
\* DuplicateEmail and changes no participant; no two participants ever
\* share an email.
C8_DuplicateEmailRejected ==
    /\ []UniqueEmails
    /\ [][ \A r \in Reqs :
             ( /\ pc[r] = "insert-participant" /\ pc'[r] # pc[r]
               /\ EmailTaken(body[r].email) )
             => /\ participants' = participants
                /\ Outcome(response'[r]) = "DuplicateEmail" ]_vars

\* C9: when sendMail fails during Register the created participant stays
\* and the caller still gets the success result of Register.
C9_MailFailureNotEscalated ==
    [][ \A r \in Reqs :
          RegisterMailFailed(r)
          => /\ insertId[r] \in DOMAIN participants'
             /\ participants' = participants
             /\ response'[r] = RegisterOk(insertId[r]) ]_vars

\* every admission record references an existing participant and session
AttendanceReferencesExist ==
    \A i \in 1..Len(attendance) :
        ForeignKeysHold(attendance[i].participant_id, attendance[i].session_id)

\* C10: a CheckIn whose participant or session does not exist ends with
\* NotFound and inserts no record; every admission record references an
\* existing participant and an existing session.
C10_CheckInNotFound ==
    /\ []AttendanceReferencesExist
    /\ [][ \A r \in Reqs :
             ( /\ pc[r] \in {"select", "insert"} /\ pc'[r] = "done"
               /\ ~ForeignKeysHold(body[r].participant_id, body[r].session_id) )
             => /\ attendance' = attendance
                /\ Outcome(response'[r]) = "NotFound" ]_vars

\* C11: a RegisterForSession whose participant or session does not exist
\* ends with NotFound (not with success) and changes no participant's
\* sessions_registered.
C11_RegisterSessionNotFound ==
    [][ \A r \in Reqs :
          ( /\ pc[r] = "update" /\ pc'[r] = "done"
            /\ ~ForeignKeysHold(body[r].participant_id, body[r].session_id) )
          => /\ participants' = participants
             /\ Outcome(response'[r]) = "NotFound" ]_vars

\* ------------------------------------------- check-in and register-session
NextIntent ==
    \E r \in FewReqs :
        \/ CheckInArrive(r)
        \/ CheckInSelect(r)
        \/ CheckInInsert(r)
        \/ RegisterSessionArrive(r)
        \/ RegisterSessionUpdate(r)

\* the service receiving a few check-ins and session registrations
SpecIntent == Init /\ [][NextIntent]_vars

\* C12: the register-session step leaves every session's capacity and the
\* whole attendance table unchanged, and for an existing participant and
\* session it answers success whatever the session's admitted count.
C12_RegisterSessionIgnoresCapacity ==
    [][ \A r \in Reqs :
          (pc[r] = "update" /\ pc'[r] # pc[r])
          => /\ sessions' = sessions
             /\ attendance' = attendance
             /\ ForeignKeysHold(body[r].participant_id, body[r].session_id)
                  => response'[r] = RegisterSessionOk ]_vars

\* a registration for a session that was already full has succeeded
C12_Witness ==
    \E q, r \in Reqs :
        /\ body[q].op = "check-in" /\ response[q] = CheckInOk
        /\ body[r].op = "register-session" /\ response[r] = RegisterSessionOk
        /\ Before(q, r)
        /\ body[r].session_id = body[q].session_id
        /\ body[r].participant_id \in DOMAIN participants
        /\ AdmittedCount(attendance, body[r].session_id)
             >= sessions[body[r].session_id].capacity

\* C13: every step of a check-in (arrival, SELECT, INSERT) leaves the
\* participants table, the sessions table and their counters unchanged and
\* sends no mail: only attendance may change.
C13_CheckInWritesOnlyAttendance ==
    [][ \A r \in Reqs :
          (body'[r].op = "check-in" /\ pc'[r] # pc[r])
          => /\ participants' = participants
             /\ nextParticipantId' = nextParticipantId
             /\ sessions' = sessions
             /\ nextSessionId' = nextSessionId
             /\ outbox' = outbox ]_vars

\* a check-in has succeeded while a participant had registered sessions
C13_Witness ==
    /\ \E r \in Reqs : body[r].op = "check-in" /\ response[r] = CheckInOk
    /\ \E p \in DOMAIN participants :
          participants[p].sessions_registered # SqlNull
    /\ attendance # <<>>

\* ------------------------------------------------ check-in and the catalog
NextCatalog ==
    \E r \in FewReqs :
        \/ CheckInArrive(r)
        \/ CheckInSelect(r)
        \/ CheckInInsert(r)
        \/ SessionsArrive(r)
        \/ SessionsSave(r)
        \/ SessionDeleteArrive(r)
        \/ SessionDelete(r)

\* the service receiving a few check-ins and session changes
SpecCatalog == Init /\ [][NextCatalog]_vars

\* session ids that were issued and whose session has been deleted
DeletedSessions == {s \in 1..(nextSessionId - 1) : s \notin DOMAIN sessions}

C15_CapacityPositive ==
    /\ \A s \in DOMAIN sessions : sessions[s].capacity >= 1
    /\ \A r \in Reqs :
          ( /\ body[r].op = "sessions" /\ pc[r] = "done"
            /\ ("capacity" \in DOMAIN body[r] => body[r].capacity < 1) )
          => Outcome(response[r]) = "InvalidCapacity"

\* ----------------------------------------------------------------- accounts
NextAccounts ==
    \E r \in FewReqs :
        \/ RegisterArrive(r)
        \/ RegisterInsert(r)
        \/ RegisterMailSent(r)
        \/ RegisterMailFailed(r)
        \/ LoginArrive(r)
        \/ LoginFind(r)
        \/ ParticipantsArrive(r)
        \/ ParticipantsSelect(r)

\* the service receiving a few registrations, logins and participant lists
SpecAccounts == Init /\ [][NextAccounts]_vars

\* C16: no response carries a participant's password_hash, neither in the
\* participant it returns nor in any row of a list it returns.
C16_NoCredentialInResponse ==
    \A r \in Reqs :
        /\ "participant" \in DOMAIN response[r]
              => "password_hash" \notin DOMAIN response[r].participant
        /\ "rows" \in DOMAIN response[r]
              => \A row \in response[r].rows : "password_hash" \notin DOMAIN row

\* ------------------------------------------------- check-in and disconnects
NextAbort ==
    \E r \in FewReqs :
        \/ CheckInArrive(r)
        \/ CheckInSelect(r)
        \/ CheckInInsert(r)
        \/ ClientAbort(r)

\* the service receiving a few check-ins whose callers may disconnect
SpecAbort == Init /\ [][NextAbort]_vars

\* the attendance row of a check-in request
CheckInRow(r) ==
    [participant_id |-> body[r].participant_id,
     session_id |-> body[r].session_id]

\* C17 as claimed: a check-in step appends exactly the request's row when the
\* call ends with success and was not aborted, and leaves attendance alone
\* when it ends with an error or the call was aborted.
C17_AbortedInsertsNothing ==
    [][ \A r \in Reqs :
          (body'[r].op = "check-in" /\ pc'[r] # pc[r])
          => IF response'[r] = CheckInOk /\ r \notin aborted
             THEN attendance' = Append(attendance, CheckInRow(r))
             ELSE attendance' = attendance ]_vars

\* C17 amended: a check-in step appends exactly the request's row when the
\* handler ends with success, aborted or not, and leaves attendance alone in
\* every other step; no step leaves anything between one whole row and none.
C17_AllOrNothing ==
    [][ \A r \in Reqs :
          (body'[r].op = "check-in" /\ pc'[r] # pc[r])
          => IF response'[r] = CheckInOk
             THEN attendance' = Append(attendance, CheckInRow(r))
             ELSE attendance' = attendance ]_vars

\* a check-in whose caller had disconnected has run to success and its row
\* is in attendance
C17_Witness ==
    \E r \in aborted :
        /\ response[r] = CheckInOk
        /\ \E i \in 1..Len(attendance) : attendance[i] = CheckInRow(r)

\* ------------------------------------------ check-in over a fair scheduler
NextCheckIn ==
    \E r \in FewReqs :
        \/ CheckInArrive(r)
        \/ CheckInSelect(r)
        \/ CheckInInsert(r)
        \/ QueryRejected(r)

\* every awaited query is eventually answered (resolved or rejected) and the
\* handler's continuation then runs
CheckInFairness ==
    \A r \in FewReqs :
        WF_vars(CheckInSelect(r) \/ CheckInInsert(r) \/ QueryRejected(r))

\* a few check-ins over a store that may reject queries, fairly scheduled
SpecCheckInFair == Init /\ [][NextCheckIn]_vars /\ CheckInFairness

\* every check-in that has started eventually completes
CheckInCompletes ==
    \A r \in FewReqs : (pc[r] \in {"select", "insert"}) ~> (pc[r] = "done")

\* C18: under fair scheduling every check-in that starts eventually
\* completes; a completed check-in has one outcome among success, NotFound,
\* AlreadyAdmitted, CapacityExceeded and the generic dependency failure, and
\* the outcome of a check-in on a nonexistent session is NotFound.
C18_CheckInCompletesTyped ==
    /\ CheckInCompletes
    /\ [](\A r \in Reqs :
            (body[r].op = "check-in" /\ pc[r] = "done")
            => /\ Outcome(response[r]) \in
                    {"Success", "NotFound", "AlreadyAdmitted",
                     "CapacityExceeded", "Failure"}
               /\ body[r].session_id \notin DOMAIN sessions
                    => Outcome(response[r]) = "NotFound")

\* -------------------------------------------------- check-ins one at a time
\* a check-in arrives while no other request is in flight
CheckInArriveAlone(r) ==
    /\ InFlight = {}
    /\ CheckInArrive(r)

NextSequential ==
    \E r \in Reqs :
        \/ CheckInArriveAlone(r)
        \/ CheckInSelect(r)
        \/ CheckInInsert(r)

\* check-ins that never overlap, capacities never changed
SpecSequential == Init /\ [][NextSequential]_vars

\* the successful check-ins of session s that arrived before request r
AdmittedBefore(r, s) ==
    {q \in Reqs : /\ q < r
                  /\ body[q].op = "check-in" /\ body[q].session_id = s
                  /\ response[q] = CheckInOk}

\* C19: when check-ins do not overlap, a completed check-in of an existing
\* session by an existing participant not admitted to it before has
\* succeeded exactly when fewer than capacity check-ins of the session had
\* succeeded before it, and no session holds more rows than its capacity.
C19_SequentialAdmission ==
    /\ \A r \in Reqs :
          ( /\ body[r].op = "check-in" /\ pc[r] = "done"
            /\ ForeignKeysHold(body[r].participant_id, body[r].session_id)
            /\ \A q \in AdmittedBefore(r, body[r].session_id) :
                  body[q].participant_id # body[r].participant_id )
          => ( response[r] = CheckInOk
               <=> Cardinality(AdmittedBefore(r, body[r].session_id))
                     < sessions[body[r].session_id].capacity )
    /\ \A s \in DOMAIN sessions :
          Len(SelectSeq(attendance, LAMBDA row : row.session_id = s))
            <= sessions[s].capacity

\* a check-in has been refused as full after the check-ins before it filled
\* the session
C19_Witness ==
    \E r \in Reqs :
        /\ body[r].op = "check-in" /\ response[r] = SessionFull
        /\ body[r].participant_id \in DOMAIN participants
        /\ AdmittedBefore(r, body[r].session_id) # {}
        /\ \A q \in AdmittedBefore(r, body[r].session_id) :
              body[q].participant_id # body[r].participant_id

\* no session of ses holds more rows of att than its capacity
WithinCapacity(att, ses) ==
    \A s \in DOMAIN ses : AdmittedCount(att, s) <= ses[s].capacity

\* --------------------------------------------- check-ins and session saves
NextResize ==
    \E r \in Reqs :
        \/ CheckInArrive(r)
        \/ CheckInSelect(r)
        \/ CheckInInsert(r)
        \/ SessionsArrive(r)
        \/ SessionsSave(r)

\* the service receiving check-ins and session creations and updates
SpecResize == Init /\ [][NextResize]_vars

\* C20: a POST /sessions step that carries a positive capacity, taken when
\* every session is within its capacity, leaves every session within its
\* (new) capacity.
C20_UpdateKeepsCapacityInvariant ==
    [][ \A r \in Reqs :
          ( /\ pc[r] = "save-session" /\ pc'[r] = "done"
            /\ "capacity" \in DOMAIN body[r]
            /\ body[r].capacity >= 1
            /\ WithinCapacity(attendance, sessions) )
          => WithinCapacity(attendance', sessions') ]_vars

=============================================================================
